---- MODULE Spec2Model ----
(***************************************************************************)
(* SatWatch route analyzer (src/app.py): the hazard correlation engine     *)
(* behind GET /api/route.  One request is followed through analyze_route:  *)
(* geocoding, routing, the three hazard sources (local advisories, GDACS   *)
(* disaster feed, OpenWeatherMap samples), aggregation and the response.   *)
(*                                                                         *)
(* Representation of Python values:                                        *)
(*   str    a sequence of one-character strings, so that lower(), `in`,    *)
(*          split() and + are computed character by character;            *)
(*   None   the one-element sequence <<"None">> (no str has a 4-character  *)
(*          element, so it is distinct from every str, "" included);       *)
(*   float  the repr of the float, as a TLA+ string ("31.1");              *)
(*   dict   a record; a key that is missing is a field that is missing;    *)
(*   list   a sequence.                                                    *)
(* A raised exception is a value returned to the enclosing try.            *)
(* The start location's name and coordinates reach only the routing URL    *)
(* and the startName field of the response, and are left out.              *)
(***************************************************************************)
EXTENDS Integers, Sequences, FiniteSets, TLC

(***************************************************************************)
(* Bounds of the model.                                                    *)
(***************************************************************************)
MaxRouteLen == 7
MaxFeedLen == 2

None == <<"None">>
Absent == <<"Absent">>

(***************************************************************************)
(* str methods.                                                            *)
(***************************************************************************)
ascii_uppercase == <<"A","B","C","D","E","F","G","H","I","J","K","L","M","N","O","P","Q","R","S","T","U","V","W","X","Y","Z">>
ascii_lowercase == <<"a","b","c","d","e","f","g","h","i","j","k","l","m","n","o","p","q","r","s","t","u","v","w","x","y","z">>
whitespace == {" ", "\t", "\n", "\r"}

lower_char(c) ==
  IF \E k \in 1..Len(ascii_uppercase) : ascii_uppercase[k] = c
    THEN ascii_lowercase[CHOOSE k \in 1..Len(ascii_uppercase) : ascii_uppercase[k] = c]
    ELSE c

\* s.lower()
lower(s) == [i \in 1..Len(s) |-> lower_char(s[i])]

\* sub in s
Contains(sub, s) ==
  \E i \in 0..(Len(s) - Len(sub)) : SubSeq(s, i + 1, i + Len(sub)) = sub

RECURSIVE SplitFrom(_, _, _, _)
SplitFrom(text, i, cur, acc) ==
  IF i > Len(text)
    THEN IF cur = <<>> THEN acc ELSE Append(acc, cur)
    ELSE IF text[i] \in whitespace
      THEN SplitFrom(text, i + 1, <<>>, IF cur = <<>> THEN acc ELSE Append(acc, cur))
      ELSE SplitFrom(text, i + 1, Append(cur, text[i]), acc)

\* text.split(): the maximal runs of non-whitespace characters
split(text) == SplitFrom(text, 1, <<>>, <<>>)

\* float(token) on the tokens the feeds of the model carry: the float's repr,
\* or "ValueError" for a token that is no float literal.
float(token) ==
  CASE token = <<"3","1",".","1","1">> -> "31.11"
    [] token = <<"7","7",".","1","1","0">> -> "77.11"
    [] token = <<"3","0",".","6","5","0","3","3","9","1","9","7","0","4","0","6","3","7">> -> "30.650339197040637"
    [] token = <<"7","7",".","1","0","0","0","0","0","0","2","9","5","9","2","9","8">> -> "77.10000002959298"
    [] token = <<"3","1",".","9","5">> -> "31.95"
    [] token = <<"7","7",".","9","5">> -> "77.95"
    [] OTHER -> "ValueError"

(***************************************************************************)
(* The registry of local advisories, in the dict's insertion order.        *)
(***************************************************************************)
MOCK_LOCAL_ADVISORIES ==
  <<
     [key |-> <<"K","u","f","r","i">>,
      advisory |-> [coords |-> <<"31.1005","77.2658">>,
                   details |-> <<"H","e","a","v","y"," ","S","n","o","w","f","a","l","l"," ","W","a","r","n","i","n","g",":"," ","K","u","f","r","i"," ","a","n","d"," ","s","u","r","r","o","u","n","d","i","n","g"," ","a","r","e","a","s"," ","e","x","p","e","r","i","e","n","c","e"," ","h","e","a","v","y"," ","s","n","o","w",","," ","l","e","a","d","i","n","g"," ","t","o"," ","f","r","e","q","u","e","n","t"," ","r","o","a","d"," ","b","l","o","c","k","a","g","e","s","."," ","C","h","e","c","k"," ","r","o","a","d"," ","s","t","a","t","u","s"," ","b","e","f","o","r","e"," ","t","r","a","v","e","l","."," ","O","n","l","y"," ","4","x","4"," ","v","e","h","i","c","l","e","s"," ","w","i","t","h"," ","s","n","o","w"," ","c","h","a","i","n","s"," ","a","r","e"," ","r","e","c","o","m","m","e","n","d","e","d",".">>,
                   location_name |-> <<"K","u","f","r","i",","," ","H","i","m","a","c","h","a","l"," ","P","r","a","d","e","s","h">>]],
     [key |-> <<"S","h","i","m","l","a">>,
      advisory |-> [coords |-> <<"31.1048","77.1734">>,
                   details |-> <<"R","o","a","d"," ","A","d","v","i","s","o","r","y",":"," ","H","e","a","v","y"," ","s","n","o","w","f","a","l","l"," ","i","n"," ","w","i","n","t","e","r","."," ","M","a","i","n"," ","r","o","a","d","s"," ","c","a","n"," ","b","e"," ","t","r","e","a","c","h","e","r","o","u","s","."," ","D","u","r","i","n","g"," ","m","o","n","s","o","o","n",","," ","r","i","s","k"," ","o","f"," ","l","a","n","d","s","l","i","d","e","s"," ","i","s"," ","h","i","g","h","."," ","D","r","i","v","e"," ","w","i","t","h"," ","c","a","u","t","i","o","n",".">>,
                   location_name |-> <<"S","h","i","m","l","a",","," ","H","i","m","a","c","h","a","l"," ","P","r","a","d","e","s","h">>]],
     [key |-> <<"H","i","m","a","c","h","a","l"," ","P","r","a","d","e","s","h">>,
      advisory |-> [coords |-> <<"31.7104","76.9325">>,
                   details |-> <<"G","e","n","e","r","a","l"," ","A","d","v","i","s","o","r","y"," ","f","o","r"," ","H","i","m","a","c","h","a","l",":"," ","T","h","e"," ","s","t","a","t","e"," ","i","s"," ","p","r","o","n","e"," ","t","o"," ","l","a","n","d","s","l","i","d","e","s"," ","a","n","d"," ","f","l","a","s","h"," ","f","l","o","o","d","s"," ","d","u","r","i","n","g"," ","m","o","n","s","o","o","n"," ","(","J","u","l","y","-","S","e","p","t",")"," ","a","n","d"," ","h","e","a","v","y"," ","s","n","o","w","f","a","l","l"," ","i","n"," ","w","i","n","t","e","r"," ","(","D","e","c","-","F","e","b",")","."," ","A","l","w","a","y","s"," ","c","h","e","c","k"," ","l","o","c","a","l"," ","w","e","a","t","h","e","r"," ","a","n","d"," ","r","o","a","d"," ","c","o","n","d","i","t","i","o","n","s",".">>,
                   location_name |-> <<"H","i","m","a","c","h","a","l"," ","P","r","a","d","e","s","h">>]],
     [key |-> <<"J","a","m","m","u">>,
      advisory |-> [coords |-> <<"32.7266","74.857">>,
                   details |-> <<"L","a","n","d","s","l","i","d","e"," ","&"," ","S","e","c","u","r","i","t","y"," ","A","d","v","i","s","o","r","y",":"," ","T","h","e"," ","J","a","m","m","u","-","S","r","i","n","a","g","a","r"," ","h","i","g","h","w","a","y"," ","(","N","H","4","4",")"," ","i","s"," ","p","r","o","n","e"," ","t","o"," ","f","r","e","q","u","e","n","t"," ","c","l","o","s","u","r","e","s"," ","d","u","e"," ","t","o"," ","l","a","n","d","s","l","i","d","e","s",","," ","e","s","p","e","c","i","a","l","l","y"," ","n","e","a","r"," ","R","a","m","b","a","n","."," ","F","o","l","l","o","w"," ","a","l","l"," ","s","e","c","u","r","i","t","y"," ","a","d","v","i","s","o","r","i","e","s"," ","a","n","d"," ","t","r","a","v","e","l"," ","o","n","l","y"," ","d","u","r","i","n","g"," ","d","a","y","l","i","g","h","t"," ","h","o","u","r","s",".">>,
                   location_name |-> <<"J","a","m","m","u"," ","R","e","g","i","o","n",","," ","J","&","K">>]],
     [key |-> <<"L","a","d","a","k","h">>,
      advisory |-> [coords |-> <<"34.1526","77.5771">>,
                   details |-> <<"H","i","g","h","-","A","l","t","i","t","u","d","e"," ","&"," ","W","e","a","t","h","e","r"," ","A","d","v","i","s","o","r","y",":"," ","R","i","s","k"," ","o","f"," ","a","c","u","t","e"," ","m","o","u","n","t","a","i","n"," ","s","i","c","k","n","e","s","s","."," ","R","o","a","d","s"," ","l","i","k","e"," ","Z","o","j","i"," ","L","a"," ","&"," ","R","o","h","t","a","n","g"," ","P","a","s","s"," ","a","r","e"," ","c","l","o","s","e","d"," ","i","n"," ","w","i","n","t","e","r","."," ","E","x","p","e","c","t"," ","e","x","t","r","e","m","e"," ","c","o","l","d"," ","a","n","d"," ","l","i","m","i","t","e","d"," ","f","a","c","i","l","i","t","i","e","s","."," ","A","c","c","l","i","m","a","t","i","z","e"," ","p","r","o","p","e","r","l","y"," ","b","e","f","o","r","e"," ","t","r","a","v","e","l",".">>,
                   location_name |-> <<"L","a","d","a","k","h"," ","U","n","i","o","n"," ","T","e","r","r","i","t","o","r","y">>]],
     [key |-> <<"K","e","d","a","r","n","a","t","h">>,
      advisory |-> [coords |-> <<"30.7352","79.0669">>,
                   details |-> <<"M","o","u","n","t","a","i","n"," ","R","o","u","t","e"," ","A","d","v","i","s","o","r","y",":"," ","S","e","a","s","o","n","a","l"," ","r","o","a","d"," ","c","l","o","s","u","r","e","s"," ","a","n","d"," ","h","e","a","v","y"," ","l","a","n","d","s","l","i","d","e","s"," ","r","e","p","o","r","t","e","d","."," ","T","r","a","v","e","l"," ","i","s"," ","*","*","N","O","T"," ","A","D","V","I","S","E","D","*","*"," ","a","t"," ","t","h","i","s"," ","t","i","m","e",".">>,
                   location_name |-> <<"R","u","d","r","a","p","r","a","y","a","g"," ","d","i","s","t","r","i","c","t",","," ","U","t","t","a","r","a","k","h","a","n","d">>]],
     [key |-> <<"J","o","s","h","i","m","a","t","h">>,
      advisory |-> [coords |-> <<"30.5656","79.5645">>,
                   details |-> <<"S","e","v","e","r","e"," ","L","a","n","d"," ","S","u","b","s","i","d","e","n","c","e"," ","W","a","r","n","i","n","g",":"," ","T","h","i","s"," ","a","r","e","a"," ","i","s"," ","e","x","p","e","r","i","e","n","c","i","n","g"," ","s","i","g","n","i","f","i","c","a","n","t"," ","l","a","n","d"," ","s","i","n","k","i","n","g","."," ","M","a","n","y"," ","s","t","r","u","c","t","u","r","e","s"," ","a","r","e"," ","u","n","s","a","f","e","."," ","N","o","n","-","e","s","s","e","n","t","i","a","l"," ","t","r","a","v","e","l"," ","i","s"," ","s","t","r","o","n","g","l","y"," ","d","i","s","c","o","u","r","a","g","e","d",".">>,
                   location_name |-> <<"J","o","s","h","i","m","a","t","h",","," ","C","h","a","m","o","l","i",","," ","U","t","t","a","r","a","k","h","a","n","d">>]],
     [key |-> <<"A","s","s","a","m">>,
      advisory |-> [coords |-> <<"26.1445","91.7362">>,
                   details |-> <<"M","o","n","s","o","o","n"," ","F","l","o","o","d"," ","A","l","e","r","t",":"," ","T","h","e"," ","B","r","a","h","m","a","p","u","t","r","a"," ","r","i","v","e","r"," ","r","e","g","u","l","a","r","l","y"," ","c","a","u","s","e","s"," ","w","i","d","e","s","p","r","e","a","d"," ","f","l","o","o","d","i","n","g"," ","d","u","r","i","n","g"," ","t","h","e"," ","m","o","n","s","o","o","n"," ","s","e","a","s","o","n"," ","(","J","u","n","e","-","S","e","p","t","e","m","b","e","r",")","."," ","C","h","e","c","k"," ","c","u","r","r","e","n","t"," ","c","o","n","d","i","t","i","o","n","s"," ","b","e","f","o","r","e"," ","t","r","a","v","e","l",".">>,
                   location_name |-> <<"A","s","s","a","m"," ","R","i","v","e","r"," ","P","l","a","i","n","s">>]],
     [key |-> <<"B","i","h","a","r">>,
      advisory |-> [coords |-> <<"25.5941","85.1376">>,
                   details |-> <<"S","e","v","e","r","e"," ","F","l","o","o","d"," ","R","i","s","k",":"," ","T","h","e"," ","K","o","s","i"," ","a","n","d"," ","G","a","n","g","e","s"," ","r","i","v","e","r","s"," ","c","a","n"," ","c","a","u","s","e"," ","e","x","t","e","n","s","i","v","e"," ","a","n","d"," ","r","a","p","i","d"," ","f","l","o","o","d","i","n","g"," ","d","u","r","i","n","g"," ","m","o","n","s","o","o","n"," ","s","e","a","s","o","n","."," ","T","r","a","v","e","l"," ","t","o"," ","n","o","r","t","h","e","r","n"," ","d","i","s","t","r","i","c","t","s"," ","m","a","y"," ","b","e"," ","d","i","s","r","u","p","t","e","d",".">>,
                   location_name |-> <<"N","o","r","t","h","e","r","n"," ","B","i","h","a","r">>]],
     [key |-> <<"K","e","r","a","l","a">>,
      advisory |-> [coords |-> <<"10.8505","76.2711">>,
                   details |-> <<"F","l","o","o","d"," ","W","a","r","n","i","n","g",":"," ","M","o","n","s","o","o","n"," ","s","e","a","s","o","n"," ","h","a","s"," ","c","a","u","s","e","d"," ","l","o","c","a","l"," ","f","l","o","o","d","i","n","g","."," ","S","o","m","e"," ","l","o","w","-","l","y","i","n","g"," ","a","r","e","a","s"," ","a","r","e"," ","i","m","p","a","s","s","a","b","l","e","."," ","C","h","e","c","k"," ","l","o","c","a","l"," ","r","e","p","o","r","t","s",".">>,
                   location_name |-> <<"K","e","r","a","l","a",","," ","I","n","d","i","a">>]],
     [key |-> <<"M","u","m","b","a","i">>,
      advisory |-> [coords |-> <<"19.076","72.8777">>,
                   details |-> <<"C","y","c","l","o","n","e"," ","A","d","v","i","s","o","r","y",":"," ","H","e","a","v","y"," ","w","i","n","d","s"," ","a","n","d"," ","s","t","o","r","m"," ","s","u","r","g","e"," ","e","x","p","e","c","t","e","d","."," ","T","r","a","v","e","l"," ","t","o"," ","c","o","a","s","t","a","l"," ","a","r","e","a","s"," ","i","s"," ","n","o","t"," ","a","d","v","i","s","e","d",".">>,
                   location_name |-> <<"M","u","m","b","a","i"," ","C","o","a","s","t","l","i","n","e">>]],
     [key |-> <<"O","d","i","s","h","a">>,
      advisory |-> [coords |-> <<"19.8135","85.8312">>,
                   details |-> <<"C","y","c","l","o","n","e"," ","A","l","e","r","t"," ","Z","o","n","e",":"," ","T","h","i","s"," ","c","o","a","s","t","a","l"," ","r","e","g","i","o","n"," ","i","s"," ","h","i","g","h","l","y"," ","s","u","s","c","e","p","t","i","b","l","e"," ","t","o"," ","c","y","c","l","o","n","e","s",","," ","e","s","p","e","c","i","a","l","l","y"," ","f","r","o","m"," ","M","a","y","-","J","u","n","e"," ","a","n","d"," ","O","c","t","o","b","e","r","-","N","o","v","e","m","b","e","r","."," ","M","o","n","i","t","o","r"," ","w","e","a","t","h","e","r"," ","r","e","p","o","r","t","s"," ","f","o","r"," ","c","y","c","l","o","n","e"," ","w","a","r","n","i","n","g","s",".">>,
                   location_name |-> <<"P","u","r","i",","," ","O","d","i","s","h","a"," ","C","o","a","s","t">>]],
     [key |-> <<"S","u","n","d","a","r","b","a","n","s">>,
      advisory |-> [coords |-> <<"21.9497","88.8533">>,
                   details |-> <<"S","t","o","r","m"," ","S","u","r","g","e"," ","&"," ","C","y","c","l","o","n","e"," ","W","a","r","n","i","n","g",":"," ","T","h","i","s"," ","l","o","w","-","l","y","i","n","g"," ","d","e","l","t","a"," ","r","e","g","i","o","n"," ","i","s"," ","e","x","t","r","e","m","e","l","y"," ","v","u","l","n","e","r","a","b","l","e"," ","t","o"," ","s","t","o","r","m"," ","s","u","r","g","e","s"," ","f","r","o","m"," ","c","y","c","l","o","n","e","s"," ","i","n"," ","t","h","e"," ","B","a","y"," ","o","f"," ","B","e","n","g","a","l","."," ","F","o","l","l","o","w"," ","a","l","l"," ","o","f","f","i","c","i","a","l"," ","a","d","v","i","s","o","r","i","e","s",".">>,
                   location_name |-> <<"S","u","n","d","a","r","b","a","n","s"," ","D","e","l","t","a",","," ","W","e","s","t"," ","B","e","n","g","a","l">>]]
  >>

(***************************************************************************)
(* haversine(lat1, lon1, lat2, lon2): the great-circle distance the source *)
(* computes with R = 6371, tabulated for the route vertices and the feed   *)
(* points of the model, in whole metres (the floor of 1000 * km).  For an  *)
(* integer n, floor(1000 * d) < 1000 * n exactly when d < n, so the        *)
(* comparison with the 50 km threshold is the source's comparison.         *)
(* The point (30.650339197040637, 77.10000002959298) is the one for which  *)
(* the source returns exactly 50.0 from (31.1, 77.1).                      *)
(***************************************************************************)
haversine(lat1, lon1, lat2, lon2) ==
  LET k == <<lat1, lon1, lat2, lon2>> IN
  CASE k = <<"31.1","77.1","31.11","77.11">> -> 1463
    [] k = <<"31.3","77.3","31.11","77.11">> -> 27800
    [] k = <<"31.5","77.5","31.11","77.11">> -> 57039
    [] k = <<"31.7","77.7","31.11","77.11">> -> 86251
    [] k = <<"31.9","77.9","31.11","77.11">> -> 115436
    [] k = <<"32.1","78.1","31.11","77.11">> -> 144595
    [] k = <<"32.3","78.3","31.11","77.11">> -> 173727
    [] k = <<"32.5","78.5","31.11","77.11">> -> 202831
    [] k = <<"31.1","77.1","30.650339197040637","77.10000002959298">> -> 50000
    [] k = <<"31.3","77.3","30.650339197040637","77.10000002959298">> -> 74712
    [] k = <<"31.5","77.5","30.650339197040637","77.10000002959298">> -> 101868
    [] k = <<"31.7","77.7","30.650339197040637","77.10000002959298">> -> 129927
    [] k = <<"31.9","77.9","30.650339197040637","77.10000002959298">> -> 158394
    [] k = <<"32.1","78.1","30.650339197040637","77.10000002959298">> -> 187070
    [] k = <<"32.3","78.3","30.650339197040637","77.10000002959298">> -> 215862
    [] k = <<"32.5","78.5","30.650339197040637","77.10000002959298">> -> 244719
    [] k = <<"31.1","77.1","31.95","77.95">> -> 124192
    [] k = <<"31.3","77.3","31.95","77.95">> -> 94928
    [] k = <<"31.5","77.5","31.95","77.95">> -> 65690
    [] k = <<"31.7","77.7","31.95","77.95">> -> 36478
    [] k = <<"31.9","77.9","31.95","77.95">> -> 7292
    [] k = <<"32.1","78.1","31.95","77.95">> -> 21866
    [] k = <<"32.3","78.3","31.95","77.95">> -> 50999
    [] k = <<"32.5","78.5","31.95","77.95">> -> 80105

(***************************************************************************)
(* fetch_local_advisories(end_loc_name): the loop over the registry, with  *)
(* its break at the first key that is contained in the destination name.   *)
(***************************************************************************)
\* A variant without the break: every matching key adds its advisory.
RECURSIVE LocalLoopNoBreak(_, _)
LocalLoopNoBreak(i, end_loc_name) ==
  IF i > Len(MOCK_LOCAL_ADVISORIES)
    THEN <<>>
    ELSE IF Contains(lower(MOCK_LOCAL_ADVISORIES[i].key), lower(end_loc_name))
      THEN <<MOCK_LOCAL_ADVISORIES[i].advisory>> \o LocalLoopNoBreak(i + 1, end_loc_name)
      ELSE LocalLoopNoBreak(i + 1, end_loc_name)

RECURSIVE LocalLoop(_, _)
LocalLoop(i, end_loc_name) ==
  IF i > Len(MOCK_LOCAL_ADVISORIES)
    THEN <<>>
    ELSE IF Contains(lower(MOCK_LOCAL_ADVISORIES[i].key), lower(end_loc_name))
      THEN <<MOCK_LOCAL_ADVISORIES[i].advisory>>
      ELSE LocalLoop(i + 1, end_loc_name)

fetch_local_advisories(end_loc_name) == LocalLoop(1, end_loc_name)

(***************************************************************************)
(* fetch_and_check_gdacs_alerts(route_points).                             *)
(* The HTTP response is [outcome, items]: outcome "ok" carries the items   *)
(* root.findall('.//item') yields; each item is [title, point], where      *)
(* title is Absent (no <title> element), None (an empty element) or a str, *)
(* and point is Absent (no <georss:point>) or the element's text.          *)
(***************************************************************************)
NearYourRoute == <<"N","e","a","r"," ","y","o","u","r"," ","r","o","u","t","e">>

\* A variant with the threshold included: <= 50 km.
RECURSIVE RoutePointLoopInclusive(_, _, _, _, _)
RoutePointLoopInclusive(route_points, j, lat, lon, title) ==
  IF j > Len(route_points)
    THEN <<>>
    ELSE IF haversine(route_points[j][1], route_points[j][2], lat, lon) <= 50 * 1000
      THEN <<[coords |-> <<lat, lon>>, details |-> title, location_name |-> NearYourRoute]>>
      ELSE RoutePointLoopInclusive(route_points, j + 1, lat, lon, title)

\* The inner loop over route_points for one item: what it appends.
RECURSIVE RoutePointLoop(_, _, _, _, _)
RoutePointLoop(route_points, j, lat, lon, title) ==
  IF j > Len(route_points)
    THEN <<>>
    ELSE IF haversine(route_points[j][1], route_points[j][2], lat, lon) < 50 * 1000
      THEN <<[coords |-> <<lat, lon>>, details |-> title, location_name |-> NearYourRoute]>>
      ELSE RoutePointLoop(route_points, j + 1, lat, lon, title)

\* Whether the body of the loop raises on this item: item.find('title') is
\* None, the point text does not split into two tokens, or a token is no float.
ItemRaises(item) ==
  \/ item.title = Absent
  \/ /\ item.point # Absent
     /\ \/ Len(split(item.point)) # 2
        \/ \E t \in 1..Len(split(item.point)) : float(split(item.point)[t]) = "ValueError"

\* The loop over the items, inside the try: [raised, detected_hazards].
RECURSIVE ItemLoop(_, _, _, _)
ItemLoop(items, i, route_points, detected_hazards) ==
  IF i > Len(items)
    THEN [raised |-> FALSE, detected_hazards |-> detected_hazards]
    ELSE IF ItemRaises(items[i])
      THEN [raised |-> TRUE, detected_hazards |-> detected_hazards]
      ELSE IF items[i].point = Absent
        THEN ItemLoop(items, i + 1, route_points, detected_hazards)
        ELSE LET lat == float(split(items[i].point)[1])
                 lon == float(split(items[i].point)[2])
             IN ItemLoop(items, i + 1, route_points,
                         detected_hazards \o RoutePointLoop(route_points, 1, lat, lon, items[i].title))

\* The try block: requests.get, raise_for_status and ET.fromstring raise
\* before any item is read.
GdacsTry(response, route_points) ==
  IF response.outcome # "ok"
    THEN [raised |-> TRUE, detected_hazards |-> <<>>]
    ELSE ItemLoop(response.items, 1, route_points, <<>>)

\* The function's value: detected_hazards, whether or not the except ran.
fetch_and_check_gdacs_alerts(response, route_points) ==
  GdacsTry(response, route_points).detected_hazards

(***************************************************************************)
(* fetch_weather_alerts(route_points).                                     *)
(***************************************************************************)
WeatherAlertPrefix == <<"W","e","a","t","h","e","r"," ","A","l","e","r","t",":"," ">>
AlongYourRoute == <<"A","l","o","n","g"," ","y","o","u","r"," ","r","o","u","t","e">>

\* A variant of the key test that takes the empty string for a key.
KeyMissingNoneOnly(key) == key = None

\* not OPENWEATHERMAP_API_KEY
KeyMissing(key) == key = None \/ key = <<>>

\* A variant that takes the middle point at (len(route_points) - 1) // 2.
PointsToCheckLowMiddle(route_points) ==
  <<route_points[1],
    route_points[((Len(route_points) - 1) \div 2) + 1],
    route_points[Len(route_points)]>>

\* [route_points[0], route_points[len(route_points)//2], route_points[-1]]
PointsToCheck(route_points) ==
  <<route_points[1],
    route_points[(Len(route_points) \div 2) + 1],
    route_points[Len(route_points)]>>

HasKey(d, k) == k \in DOMAIN d

\* Whether the try block of one iteration raises: the request or
\* raise_for_status fails, or the payload lacks 'id' or 'description'.
LookupRaises(response) ==
  \/ response.outcome # "ok"
  \/ /\ HasKey(response.data, "weather")
     /\ response.data.weather # <<>>
     /\ \/ ~HasKey(response.data.weather[1], "id")
        \/ /\ 200 <= response.data.weather[1].id
           /\ response.data.weather[1].id < 800
           /\ ~HasKey(response.data.weather[1], "description")

\* A variant of the classifier that takes 800 (clear sky) for a hazard.
WeatherPointInclusive800(point, response, weather_hazards) ==
  IF response.outcome = "ok" /\ HasKey(response.data, "weather")
     /\ response.data.weather # <<>>
     /\ HasKey(response.data.weather[1], "id")
     /\ HasKey(response.data.weather[1], "description")
     /\ 200 <= response.data.weather[1].id
     /\ response.data.weather[1].id <= 800
    THEN Append(weather_hazards,
                [coords |-> point,
                 details |-> WeatherAlertPrefix \o response.data.weather[1].description,
                 location_name |-> IF HasKey(response.data, "name")
                                     THEN response.data.name ELSE AlongYourRoute])
    ELSE weather_hazards

\* A variant with the try around the whole loop and the list rebuilt in the
\* except: a failed lookup loses the records made before it.
WeatherPointFailureDrops(point, response, weather_hazards) ==
  IF LookupRaises(response)
    THEN <<>>
    ELSE IF /\ HasKey(response.data, "weather")
            /\ response.data.weather # <<>>
            /\ 200 <= response.data.weather[1].id
            /\ response.data.weather[1].id < 800
      THEN Append(weather_hazards,
                  [coords |-> point,
                   details |-> WeatherAlertPrefix \o response.data.weather[1].description,
                   location_name |-> IF HasKey(response.data, "name")
                                       THEN response.data.name ELSE AlongYourRoute])
      ELSE weather_hazards

\* One iteration of the loop over points_to_check: weather_hazards after it.
WeatherPoint(point, response, weather_hazards) ==
  IF LookupRaises(response)
    THEN weather_hazards
    ELSE LET data == response.data IN
      IF /\ HasKey(data, "weather")
         /\ data.weather # <<>>
         /\ 200 <= data.weather[1].id
         /\ data.weather[1].id < 800
        THEN Append(weather_hazards,
                    [coords |-> point,
                     details |-> WeatherAlertPrefix \o data.weather[1].description,
                     location_name |-> IF HasKey(data, "name") THEN data.name ELSE AlongYourRoute])
        ELSE weather_hazards

(***************************************************************************)
(* get_satellite_url(hazard_type): the imagery layer and the file type of  *)
(* the URL (the date is today's and plays no part in the choice).          *)
(***************************************************************************)
get_satellite_url(hazard_type) ==
  IF /\ hazard_type # None
     /\ hazard_type # <<>>
     /\ \/ Contains(<<"f","i","r","e">>, lower(hazard_type))
        \/ Contains(<<"w","i","l","d","f","i","r","e">>, lower(hazard_type))
    THEN [layer |-> "VIIRS_SNPP_Thermal_Anomalies_375m_All", ext |-> "png"]
    ELSE [layer |-> "MODIS_Terra_CorrectedReflectance_TrueColor", ext |-> "jpg"]

(***************************************************************************)
(* analyze_route: the aggregation and the value handed to                  *)
(* get_satellite_url.                                                      *)
(***************************************************************************)
\* A variant that puts the weather records before the disaster records.
AggregateWeatherFirst(local_hazards, gdacs_hazards, weather_hazards) ==
  local_hazards \o weather_hazards \o gdacs_hazards

\* all_hazards = local_hazards + gdacs_hazards + weather_hazards
Aggregate(local_hazards, gdacs_hazards, weather_hazards) ==
  local_hazards \o gdacs_hazards \o weather_hazards

PrimaryDetails(all_hazards) ==
  IF all_hazards # <<>> THEN all_hazards[1].details ELSE None

\* [[p[1], p[0]] for p in coordinates]: OSRM gives [lon, lat]
RoutePoints(coordinates) ==
  [i \in 1..Len(coordinates) |-> <<coordinates[i][2], coordinates[i][1]>>]

(***************************************************************************)
(* What the collaborators can answer.                                      *)
(***************************************************************************)
\* end_loc.address, as the geocoder returns it
DestNames ==
  { <<"K","u","f","r","i",","," ","S","h","i","m","l","a",","," ","H","i","m","a","c","h","a","l"," ","P","r","a","d","e","s","h",","," ","I","n","d","i","a">>,
    <<"S","H","I","M","L","A"," ","D","I","S","T","R","I","C","T",","," ","h","i","m","a","c","h","a","l"," ","p","r","a","d","e","s","h">>,
    <<"N","e","w"," ","D","e","l","h","i",","," ","D","e","l","h","i",","," ","I","n","d","i","a">>,
    <<"H","i","m","a","c","h","a","l">> }

\* The geometry OSRM returns, [lon, lat] per vertex: the first n vertices of
\* one polyline.
BaseCoordinates ==
  << <<"77.1","31.1">>, <<"77.3","31.3">>, <<"77.5","31.5">>, <<"77.7","31.7">>,
     <<"77.9","31.9">>, <<"78.1","32.1">>, <<"78.3","32.3">>, <<"78.5","32.5">> >>

RouteLens ==
  {n \in 1..MaxRouteLen : n <= Len(BaseCoordinates)}

Coordinates(n) == [i \in 1..n |-> BaseCoordinates[i]]

\* Items of the GDACS feed.
PointA == <<"3","1",".","1","1"," ","7","7",".","1","1","0">>
PointB == <<"3","0",".","6","5","0","3","3","9","1","9","7","0","4","0","6","3","7"," ","7","7",".","1","0","0","0","0","0","0","2","9","5","9","2","9","8">>
PointD == <<"3","1",".","9","5"," ","7","7",".","9","5">>

ItemA == [title |-> <<"R","e","d"," ","f","o","r","e","s","t"," ","f","i","r","e"," ","a","l","e","r","t"," ","i","n"," ","I","n","d","i","a">>,
          point |-> PointA]
ItemB == [title |-> <<"O","r","a","n","g","e"," ","f","l","o","o","d"," ","a","l","e","r","t"," ","i","n"," ","I","n","d","i","a">>,
          point |-> PointB]
ItemD == [title |-> <<"O","r","a","n","g","e"," ","e","a","r","t","h","q","u","a","k","e"," ","a","l","e","r","t"," ","i","n"," ","I","n","d","i","a">>,
          point |-> PointD]
ItemNoPoint == [title |-> <<"R","e","d"," ","d","r","o","u","g","h","t"," ","a","l","e","r","t"," ","i","n"," ","I","n","d","i","a">>,
                point |-> Absent]
ItemBadPoint == [title |-> <<"R","e","d"," ","c","y","c","l","o","n","e"," ","a","l","e","r","t"," ","i","n"," ","I","n","d","i","a">>,
                 point |-> <<"a","b","c"," ","7","7",".","1","1">>]
ItemNoTitle == [title |-> Absent, point |-> PointA]
ItemEmptyTitle == [title |-> None, point |-> PointA]

FeedItems ==
  {ItemA, ItemB, ItemD, ItemNoPoint, ItemBadPoint, ItemNoTitle, ItemEmptyTitle}

Feeds == UNION {[1..n -> FeedItems] : n \in 0..MaxFeedLen}

GdacsResponses ==
  {[outcome |-> "network_error"], [outcome |-> "http_error"], [outcome |-> "malformed_xml"]}
    \cup {[outcome |-> "ok", items |-> f] : f \in Feeds}

\* Answers of the weather provider to one lookup.
Shimla == <<"S","h","i","m","l","a">>

WeatherResponses ==
  {[outcome |-> "timeout"],
   [outcome |-> "http_error"],
   [outcome |-> "ok", data |-> [weather |-> <<>>, name |-> Shimla]],
   [outcome |-> "ok", data |-> [weather |-> <<[id |-> 199, description |-> <<"m","i","s","t">>]>>, name |-> Shimla]],
   [outcome |-> "ok", data |-> [weather |-> <<[id |-> 200, description |-> <<"t","h","u","n","d","e","r","s","t","o","r","m"," ","w","i","t","h"," ","l","i","g","h","t"," ","r","a","i","n">>]>>, name |-> Shimla]],
   [outcome |-> "ok", data |-> [weather |-> <<[id |-> 799, description |-> <<"t","o","r","n","a","d","o">>]>>]],
   [outcome |-> "ok", data |-> [weather |-> <<[id |-> 800, description |-> <<"c","l","e","a","r"," ","s","k","y">>]>>, name |-> Shimla]],
   [outcome |-> "ok", data |-> [weather |-> <<[id |-> 501]>>, name |-> Shimla]]}

\* os.environ.get('OPENWEATHERMAP_API_KEY'): unset, set to "", or set
ApiKeys == {None, <<>>, <<"0","f","1","e","2","d","3","c">>}

(***************************************************************************)
(* State: the process-wide key, the position of the request in             *)
(* analyze_route, its locals, the locals of the source function that is    *)
(* running, the lookups sent to the weather provider, what was printed,    *)
(* and the response.                                                       *)
(***************************************************************************)
VARIABLES
  OPENWEATHERMAP_API_KEY,
  pc,
  called,
  printed,
  end_name,
  route_points,
  local_hazards,
  gdacs_response,
  detected_hazards,
  gdacs_hazards,
  points_to_check,
  weather_idx,
  weather_response,
  weather_calls,
  weather_hazards,
  all_hazards,
  hazard_type,
  response

vars ==
  <<OPENWEATHERMAP_API_KEY, pc, called, printed, end_name, route_points,
    local_hazards, gdacs_response, detected_hazards, gdacs_hazards,
    points_to_check, weather_idx, weather_response, weather_calls,
    weather_hazards, all_hazards, hazard_type, response>>

NoResponse == [outcome |-> "none"]
NoReply == [status |-> 0]

\* The locals of a request that has just arrived.
Fresh ==
  /\ pc = "geocode"
  /\ called = {}
  /\ printed = {}
  /\ end_name = None
  /\ route_points = <<>>
  /\ local_hazards = <<>>
  /\ gdacs_response = NoResponse
  /\ detected_hazards = <<>>
  /\ gdacs_hazards = <<>>
  /\ points_to_check = <<>>
  /\ weather_idx = 0
  /\ weather_response = NoResponse
  /\ weather_calls = <<>>
  /\ weather_hazards = <<>>
  /\ all_hazards = <<>>
  /\ hazard_type = None
  /\ response = NoReply

Init ==
  /\ OPENWEATHERMAP_API_KEY \in ApiKeys
  /\ Fresh

Reply(status, body) == [status |-> status, body |-> body]

\* Lines 169-191: the start and the destination are geocoded.
Geocode ==
  /\ pc = "geocode"
  /\ \/ /\ \E r \in {Reply(400, [error |-> "Start location not provided"]),
                     Reply(404, [error |-> "Could not find start location"]),
                     Reply(404, [error |-> "Could not find destination"]),
                     Reply(500, [error |-> "Geocoding error"])} :
             response' = r
        /\ pc' = "done"
        /\ UNCHANGED end_name
     \/ /\ \E name \in DestNames : end_name' = name
        /\ pc' = "route"
        /\ UNCHANGED response
  /\ UNCHANGED <<OPENWEATHERMAP_API_KEY, called, printed, route_points,
                 local_hazards, gdacs_response, detected_hazards, gdacs_hazards,
                 points_to_check, weather_idx, weather_response, weather_calls,
                 weather_hazards, all_hazards, hazard_type>>

\* Lines 193-204: the routing service is asked for the polyline.
FetchRoute ==
  /\ pc = "route"
  /\ \/ /\ \E r \in {Reply(500, [error |-> "Could not fetch route from routing service."]),
                     Reply(404, [error |-> "Could not find a route between locations"])} :
             response' = r
        /\ pc' = "done"
        /\ UNCHANGED route_points
     \/ /\ \E n \in RouteLens : route_points' = RoutePoints(Coordinates(n))
        /\ pc' = "local"
        /\ UNCHANGED response
  /\ UNCHANGED <<OPENWEATHERMAP_API_KEY, called, printed, end_name,
                 local_hazards, gdacs_response, detected_hazards, gdacs_hazards,
                 points_to_check, weather_idx, weather_response, weather_calls,
                 weather_hazards, all_hazards, hazard_type>>

\* Line 206.
CallLocal ==
  /\ pc = "local"
  /\ called' = called \cup {"fetch_local_advisories"}
  /\ local_hazards' = fetch_local_advisories(end_name)
  /\ pc' = "gdacs"
  /\ UNCHANGED <<OPENWEATHERMAP_API_KEY, printed, end_name, route_points,
                 gdacs_response, detected_hazards, gdacs_hazards,
                 points_to_check, weather_idx, weather_response, weather_calls,
                 weather_hazards, all_hazards, hazard_type, response>>

\* A variant without the try: a failure of the feed escapes and the request
\* ends with the framework's 500.
CallGdacsUncaught ==
  /\ pc = "gdacs"
  /\ called' = called \cup {"fetch_and_check_gdacs_alerts"}
  /\ \E r \in GdacsResponses :
       /\ gdacs_response' = r
       /\ IF GdacsTry(r, route_points).raised
            THEN /\ response' = Reply(500, [error |-> "Internal Server Error"])
                 /\ pc' = "done"
                 /\ UNCHANGED detected_hazards
            ELSE /\ detected_hazards' = fetch_and_check_gdacs_alerts(r, route_points)
                 /\ pc' = "gdacs_return"
                 /\ UNCHANGED response
  /\ UNCHANGED <<OPENWEATHERMAP_API_KEY, printed, end_name, route_points, local_hazards,
                 gdacs_hazards, points_to_check, weather_idx, weather_response,
                 weather_calls, weather_hazards, all_hazards, hazard_type>>

\* Line 207, lines 112-130: the feed is fetched, parsed and correlated.
CallGdacs ==
  /\ pc = "gdacs"
  /\ called' = called \cup {"fetch_and_check_gdacs_alerts"}
  /\ \E r \in GdacsResponses :
       /\ gdacs_response' = r
       /\ detected_hazards' = fetch_and_check_gdacs_alerts(r, route_points)
       /\ printed' = IF GdacsTry(r, route_points).raised
                       THEN printed \cup {"Error fetching/parsing GDACS data"}
                       ELSE printed
  /\ pc' = "gdacs_return"
  /\ UNCHANGED <<OPENWEATHERMAP_API_KEY, end_name, route_points, local_hazards,
                 gdacs_hazards, points_to_check, weather_idx, weather_response,
                 weather_calls, weather_hazards, all_hazards, hazard_type, response>>

\* Line 131: return detected_hazards; the function's locals go.
GdacsReturn ==
  /\ pc = "gdacs_return"
  /\ gdacs_hazards' = detected_hazards
  /\ gdacs_response' = NoResponse
  /\ detected_hazards' = <<>>
  /\ pc' = "weather"
  /\ UNCHANGED <<OPENWEATHERMAP_API_KEY, called, printed, end_name, route_points,
                 local_hazards, points_to_check, weather_idx, weather_response,
                 weather_calls, weather_hazards, all_hazards, hazard_type, response>>

\* Line 208, lines 135-140: the key is tested, the sample points chosen.
WeatherEnter ==
  /\ pc = "weather"
  /\ called' = called \cup {"fetch_weather_alerts"}
  /\ IF KeyMissing(OPENWEATHERMAP_API_KEY)
       THEN /\ printed' = printed \cup {"Skipping weather check"}
            /\ pc' = "aggregate"
            /\ UNCHANGED points_to_check
       ELSE /\ points_to_check' = PointsToCheck(route_points)
            /\ pc' = "sample"
            /\ UNCHANGED printed
  /\ weather_hazards' = <<>>
  /\ weather_idx' = 0
  /\ UNCHANGED <<OPENWEATHERMAP_API_KEY, end_name, route_points, local_hazards,
                 gdacs_response, detected_hazards, gdacs_hazards, weather_response,
                 weather_calls, all_hazards, hazard_type, response>>

\* Lines 142-156: one iteration of the loop over points_to_check.
WeatherSample ==
  /\ pc = "sample"
  /\ weather_idx < Len(points_to_check)
  /\ LET point == points_to_check[weather_idx + 1] IN
     \E r \in WeatherResponses :
       /\ weather_calls' = Append(weather_calls,
            [lat |-> point[1], lon |-> point[2], appid |-> OPENWEATHERMAP_API_KEY])
       /\ weather_response' = r
       /\ weather_hazards' = WeatherPoint(point, r, weather_hazards)
       /\ printed' = IF LookupRaises(r)
                       THEN printed \cup {"Error fetching OpenWeatherMap data"}
                       ELSE printed
  /\ weather_idx' = weather_idx + 1
  /\ UNCHANGED <<OPENWEATHERMAP_API_KEY, pc, called, end_name, route_points,
                 local_hazards, gdacs_response, detected_hazards, gdacs_hazards,
                 points_to_check, all_hazards, hazard_type, response>>

\* Line 157: return weather_hazards; the function's locals go.
WeatherReturn ==
  /\ pc = "sample"
  /\ weather_idx = Len(points_to_check)
  /\ points_to_check' = <<>>
  /\ weather_response' = NoResponse
  /\ weather_idx' = 0
  /\ pc' = "aggregate"
  /\ UNCHANGED <<OPENWEATHERMAP_API_KEY, called, printed, end_name, route_points,
                 local_hazards, gdacs_response, detected_hazards, gdacs_hazards,
                 weather_calls, weather_hazards, all_hazards, hazard_type, response>>

\* Lines 209-219: aggregation, imagery URL, response.
Respond ==
  /\ pc = "aggregate"
  /\ all_hazards' = Aggregate(local_hazards, gdacs_hazards, weather_hazards)
  /\ hazard_type' = PrimaryDetails(all_hazards')
  /\ response' = Reply(200, [endName |-> end_name,
                             route |-> route_points,
                             hazards |-> all_hazards',
                             satelliteUrl |-> get_satellite_url(hazard_type')])
  /\ pc' = "done"
  /\ UNCHANGED <<OPENWEATHERMAP_API_KEY, called, printed, end_name, route_points,
                 local_hazards, gdacs_response, detected_hazards, gdacs_hazards,
                 points_to_check, weather_idx, weather_response, weather_calls,
                 weather_hazards>>

\* The server takes the next request; nothing of the last one is kept.
NextRequest ==
  /\ pc = "done"
  /\ pc' = "geocode"
  /\ called' = {}
  /\ printed' = {}
  /\ end_name' = None
  /\ route_points' = <<>>
  /\ local_hazards' = <<>>
  /\ gdacs_response' = NoResponse
  /\ detected_hazards' = <<>>
  /\ gdacs_hazards' = <<>>
  /\ points_to_check' = <<>>
  /\ weather_idx' = 0
  /\ weather_response' = NoResponse
  /\ weather_calls' = <<>>
  /\ weather_hazards' = <<>>
  /\ all_hazards' = <<>>
  /\ hazard_type' = None
  /\ response' = NoReply
  /\ UNCHANGED OPENWEATHERMAP_API_KEY

Next ==
  \/ Geocode
  \/ FetchRoute
  \/ CallLocal
  \/ CallGdacs
  \/ GdacsReturn
  \/ WeatherEnter
  \/ WeatherSample
  \/ WeatherReturn
  \/ Respond
  \/ NextRequest

Spec == Init /\ [][Next]_vars

(***************************************************************************)
(* Properties.                                                             *)
(***************************************************************************)
Routed == Len(route_points) >= 1
Answered == pc = "done" /\ response.status = 200
Elems(s) == {s[i] : i \in 1..Len(s)}
Sources == {"fetch_local_advisories", "fetch_and_check_gdacs_alerts", "fetch_weather_alerts"}
KeyConfigured == OPENWEATHERMAP_API_KEY \notin {None, <<>>}
GdacsFailed == "Error fetching/parsing GDACS data" \in printed
WeatherFailed == "Error fetching OpenWeatherMap data" \in printed

\* C1: once a request has a route, whatever the disaster feed and the weather
\* lookups answer, the request never ends in an error: the sampling loop always
\* has a next step, the request ends with status 200, all three source
\* functions have been called (with a key, three weather lookups sent), and
\* every record a source returned is in the response's hazard list.
C1_FailureIsolation ==
  /\ (pc = "sample" => weather_idx <= Len(points_to_check))
  /\ (pc = "done" /\ Routed =>
        /\ response.status = 200
        /\ called = Sources
        /\ (KeyConfigured => Len(weather_calls) = 3)
        /\ Elems(local_hazards) \subseteq Elems(response.body.hazards)
        /\ Elems(gdacs_hazards) \subseteq Elems(response.body.hazards)
        /\ Elems(weather_hazards) \subseteq Elems(response.body.hazards))

\* C1 witness: the feed failed and a weather lookup failed, and the response
\* still carries the local advisory and a weather record.
C1_Witness ==
  /\ Answered
  /\ GdacsFailed
  /\ WeatherFailed
  /\ gdacs_hazards = <<>>
  /\ Len(local_hazards) = 1
  /\ Len(weather_hazards) = 2
  /\ Len(response.body.hazards) = 3

\* C2: the hazard list of the response is local, then disaster, then weather:
\* position by position, nothing dropped, repeated or moved.
C2_AggregateIsConcatenation ==
  Answered =>
    LET h == response.body.hazards
        nl == Len(local_hazards)
        ng == Len(gdacs_hazards)
        nw == Len(weather_hazards)
    IN /\ h = all_hazards
       /\ Len(h) = nl + ng + nw
       /\ \A i \in 1..nl : h[i] = local_hazards[i]
       /\ \A i \in 1..ng : h[nl + i] = gdacs_hazards[i]
       /\ \A i \in 1..nw : h[nl + ng + i] = weather_hazards[i]

\* C2 witness: one local, one disaster and one weather record give [L, D, W].
C2_Witness ==
  /\ Answered
  /\ Len(local_hazards) = 1
  /\ Len(gdacs_hazards) = 1
  /\ Len(weather_hazards) = 1
  /\ response.body.hazards = <<local_hazards[1], gdacs_hazards[1], weather_hazards[1]>>
  /\ local_hazards[1] # gdacs_hazards[1]
  /\ gdacs_hazards[1] # weather_hazards[1]

\* C3: the local matcher returns the advisory of the first registry key, in
\* insertion order, that is a case-insensitive substring of the destination
\* name, and the empty list when there is none; never more than one record
\* (stated where fetch_local_advisories has just returned).
MatchingKeys(name) ==
  {i \in 1..Len(MOCK_LOCAL_ADVISORIES) :
     Contains(lower(MOCK_LOCAL_ADVISORIES[i].key), lower(name))}

C3_FirstMatchWins ==
  pc = "gdacs" =>
    LET m == MatchingKeys(end_name) IN
    /\ Len(local_hazards) <= 1
    /\ (m = {} => local_hazards = <<>>)
    /\ (m # {} =>
          local_hazards =
            <<MOCK_LOCAL_ADVISORIES[CHOOSE i \in m : \A k \in m : i <= k].advisory>>)

\* C3 witness: "Kufri", "Shimla" and "Himachal Pradesh" all occur in the
\* destination name and the Kufri advisory, the first registered, is returned.
C3_Witness ==
  /\ pc = "gdacs"
  /\ MatchingKeys(end_name) = {1, 2, 3}
  /\ local_hazards = <<MOCK_LOCAL_ADVISORIES[1].advisory>>

\* C4: for a feed that parses, the correlator returns, in feed order, one
\* record for each item that has a point strictly closer than 50 km to some
\* route point, and nothing else; an item whose closest route point is at
\* exactly 50 km gives none, an item without a point is passed over.
ItemLat(item) == float(split(item.point)[1])
ItemLon(item) == float(split(item.point)[2])
Within50(item, route) ==
  /\ item.point # Absent
  /\ \E j \in 1..Len(route) :
       haversine(route[j][1], route[j][2], ItemLat(item), ItemLon(item)) < 50000
AtExactly50(item, route) ==
  /\ item.point # Absent
  /\ \A j \in 1..Len(route) :
       haversine(route[j][1], route[j][2], ItemLat(item), ItemLon(item)) >= 50000
  /\ \E j \in 1..Len(route) :
       haversine(route[j][1], route[j][2], ItemLat(item), ItemLon(item)) = 50000
RecordOf(item) ==
  [coords |-> <<ItemLat(item), ItemLon(item)>>,
   details |-> item.title,
   location_name |-> NearYourRoute]
FeedParses ==
  /\ pc = "gdacs_return"
  /\ gdacs_response.outcome = "ok"
  /\ \A i \in 1..Len(gdacs_response.items) : ~ItemRaises(gdacs_response.items[i])

C4_FeedOrderStrictThreshold ==
  FeedParses =>
    LET Near(item) == Within50(item, route_points)
        sel == SelectSeq(gdacs_response.items, Near)
    IN /\ detected_hazards = [k \in 1..Len(sel) |-> RecordOf(sel[k])]
       /\ \A i \in 1..Len(gdacs_response.items) :
            AtExactly50(gdacs_response.items[i], route_points) =>
              \A k \in 1..Len(detected_hazards) :
                detected_hazards[k].coords # RecordOf(gdacs_response.items[i]).coords

\* C4 witness: the first item is at exactly 50 km from the start of the
\* route, the second is within 50 km of two route points; only the second
\* gives a record, and only one.
C4_Witness ==
  /\ FeedParses
  /\ gdacs_response.items = <<ItemB, ItemA>>
  /\ Len(route_points) = 3
  /\ detected_hazards = <<RecordOf(ItemA)>>

\* C5: whenever fetching or parsing the feed fails, at any item, the
\* correlator gives the empty list and the response has no disaster record.
C5_FailureGivesEmptyList ==
  GdacsFailed =>
    /\ detected_hazards = <<>>
    /\ gdacs_hazards = <<>>
    /\ (Answered => Len(response.body.hazards) = Len(local_hazards) + Len(weather_hazards))

\* C6: with a key, the lookups sent are those of route[0], route[n div 2]
\* and route[n-1], in that order, and no other (indices from 0; the model's
\* sequences start at 1).
Lookup(point) ==
  [lat |-> point[1], lon |-> point[2], appid |-> OPENWEATHERMAP_API_KEY]
ExpectedLookups ==
  LET n == Len(route_points) IN
  <<Lookup(route_points[1]), Lookup(route_points[(n \div 2) + 1]), Lookup(route_points[n])>>

C6_SampledIndices ==
  /\ (pc = "sample" =>
        /\ Len(weather_calls) = weather_idx
        /\ weather_idx <= 3
        /\ weather_calls = SubSeq(ExpectedLookups, 1, weather_idx))
  /\ (KeyConfigured /\ pc \in {"aggregate", "done"} /\ "fetch_weather_alerts" \in called
        => weather_calls = ExpectedLookups)

\* C6 witness: a 7-point route, sampled at its points 0, 3 and 6.
C6_Witness ==
  /\ pc = "aggregate"
  /\ Len(route_points) = 7
  /\ weather_calls = <<Lookup(<<"31.1", "77.1">>), Lookup(<<"31.7", "77.7">>),
                       Lookup(<<"32.3", "78.3">>)>>

\* C7: a well-formed answer (a weather array whose first element has id and
\* description) adds a record exactly when 200 <= id < 800, and the record
\* has the sampled point, "Weather Alert: " + description, and the place
\* name or, without one, "Along your route".
WellFormed(r) ==
  /\ r.outcome = "ok"
  /\ HasKey(r.data, "weather")
  /\ r.data.weather # <<>>
  /\ HasKey(r.data.weather[1], "id")
  /\ HasKey(r.data.weather[1], "description")

C7_HazardousIffCodeInRange ==
  [][(pc = "sample" /\ weather_idx' = weather_idx + 1 /\ WellFormed(weather_response')) =>
       LET w == weather_response'.data.weather[1]
           rec == [coords |-> points_to_check[weather_idx + 1],
                   details |-> WeatherAlertPrefix \o w.description,
                   location_name |-> IF HasKey(weather_response'.data, "name")
                                       THEN weather_response'.data.name
                                       ELSE AlongYourRoute]
       IN IF 200 <= w.id /\ w.id < 800
            THEN weather_hazards' = Append(weather_hazards, rec)
            ELSE weather_hazards' = weather_hazards]_vars

\* C7 witness: id 799 without a place name has just given a record with the
\* fallback name.
C7_Witness ==
  /\ pc = "sample"
  /\ weather_idx = 2
  /\ WellFormed(weather_response)
  /\ weather_response.data.weather[1].id = 799
  /\ Len(weather_hazards) = 1
  /\ weather_hazards[1].location_name = AlongYourRoute
  /\ weather_hazards[1].coords = points_to_check[2]

\* C8: every iteration of the sampling loop, failed or not, sends its lookup,
\* keeps the records made so far and goes on to the next point; a failed
\* lookup adds nothing, and the loop ends after three lookups.
C8_PointFailureSkipsOnlyThatPoint ==
  /\ [][(pc = "sample" /\ weather_idx < Len(points_to_check)) =>
          /\ pc' = "sample"
          /\ weather_idx' = weather_idx + 1
          /\ Len(weather_calls') = Len(weather_calls) + 1
          /\ Len(weather_hazards') >= Len(weather_hazards)
          /\ SubSeq(weather_hazards', 1, Len(weather_hazards)) = weather_hazards
          /\ (weather_response'.outcome # "ok" => weather_hazards' = weather_hazards)
          /\ (WellFormed(weather_response') /\ weather_response'.data.weather[1].id = 200
                => Len(weather_hazards') = Len(weather_hazards) + 1)]_vars
  /\ [](pc = "sample" => Len(points_to_check) = 3)

\* C8 witness: three lookups were sent, one of the first two failed, and the
\* records of the two others, the last one included, are there.
C8_Witness ==
  /\ pc = "sample"
  /\ weather_idx = 3
  /\ Len(weather_calls) = 3
  /\ WeatherFailed
  /\ WellFormed(weather_response)
  /\ Len(weather_hazards) = 2
  /\ weather_hazards[2].coords = points_to_check[3]

\* C9: without a key (unset or empty) no weather lookup is ever sent, the
\* weather list stays empty, and the response carries the local and the
\* disaster records.
C9_NoKeyNoLookup ==
  OPENWEATHERMAP_API_KEY \in {None, <<>>} =>
    /\ weather_calls = <<>>
    /\ weather_hazards = <<>>
    /\ pc # "sample"
    /\ (Answered =>
          /\ "fetch_weather_alerts" \in called
          /\ response.body.hazards = local_hazards \o gdacs_hazards)

\* C9 witness: no key, and a response with the local and a disaster record.
C9_Witness ==
  /\ OPENWEATHERMAP_API_KEY = None
  /\ Answered
  /\ weather_calls = <<>>
  /\ Len(local_hazards) = 1
  /\ Len(gdacs_hazards) = 1
  /\ Len(response.body.hazards) = 2

\* C10: the value handed to get_satellite_url is the details of the local
\* record if there is one, else of the first disaster record, else of the
\* first weather record, and it is None exactly when all three lists are
\* empty.
C10_PrimaryHazard ==
  Answered =>
    /\ hazard_type =
         IF local_hazards # <<>> THEN local_hazards[1].details
         ELSE IF gdacs_hazards # <<>> THEN gdacs_hazards[1].details
         ELSE IF weather_hazards # <<>> THEN weather_hazards[1].details
         ELSE None
    /\ (hazard_type = None <=>
          local_hazards = <<>> /\ gdacs_hazards = <<>> /\ weather_hazards = <<>>)
====
